---- MODULE Spec2Model ----
(***************************************************************************)
(* The `llm cluster` command of src/llm_cluster.py as a state machine.     *)
(*                                                                         *)
(* One run of the command: read the rows of a collection, fit the          *)
(* clustering model, group the rows by label (truncating their content),   *)
(* and either dump the clusters as JSON or stream them one by one with a   *)
(* summary obtained from a language model.                                 *)
(*                                                                         *)
(* Text is a sequence of one-character strings.  Python's None is the      *)
(* value None below, a sequence that is no text (its element is not a      *)
(* character), so that it can be compared with every text.                 *)
(***************************************************************************)
EXTENDS Integers, Sequences, FiniteSets, TLC

\* ------------------------------------------------------------------ bounds
MaxRows == 3          \* rows stored for the collection

\* ------------------------------------------------------------- value sets
None == <<"None">>
\* sampled_items before randsample has run: a list that is no list of items
\* (its one entry has an id no row has)
Unbound == <<[id |-> "", content |-> None]>>
Whitespace == {" ", "\n"}
\* stored contents tried: null, empty, blank, blank-led, two letters
Contents == {None, <<>>, <<" ">>, <<" ", "a">>, <<"a", "b">>}
\* ids of the stored rows, by position in retrieval order (a primary key)
RowIds == <<"k", "c", "x", "b", "m">>
\* the one collection the store holds, and a name it does not hold
StoredCollection == "docs"
CollectionNames == {"docs", "nosuch"}
\* option values tried: --truncate, --sample_threshold, --sample (a
\* percentage, 0..100), and the argument n
Truncates == {0, 1, 2}
Thresholds == {0, 2}
Samples == {0, 80}
ClusterCounts == {1, 2}
\* texts the language model may answer with
Responses == {<<"t">>}

\* what the embeddings table may hold for the stored collection: the content
\* column, row by row in retrieval order
Stores == UNION {[1..k -> Contents] : k \in 0..MaxRows}

VARIABLES
    pc,               \* position of the run in the command body
    collection,       \* argument: collection name
    n,                \* argument: number of clusters
    truncate,         \* option --truncate
    sample_threshold, \* option --sample_threshold
    sample,           \* option --sample
    summary,          \* flag --summary
    rows,             \* rows read: sequence of [id, content]
    assignments,      \* clustering_model.labels_
    fit_called,       \* clustering_model.fit has been entered
    output_clusters,  \* list of [id, items]
    output,           \* what click.echo has written, call by call
    idx,              \* position of the summary loop in output_clusters
    prompt_content,   \* text to be sent to the model for the current cluster
    sampled_items,    \* result of randsample for the current cluster, or Unbound
    calls,            \* invocations of model.prompt: [cluster, text]
    error             \* exception that ended the run, or "none"

vars == <<pc, collection, n, truncate, sample_threshold, sample, summary,
          rows, assignments, fit_called, output_clusters, output, idx,
          prompt_content, sampled_items, calls, error>>

\* ------------------------------------------------------------ pure helpers
Min(a, b) == IF a < b THEN a ELSE b

\* str() of a small non-negative integer (a cluster label)
PyStr(k) == <<"0", "1", "2", "3", "4", "5", "6", "7", "8", "9">>[k + 1]

\* truthiness of a content value: None and "" are falsy
Truthy(text) == text # None /\ text # <<>>

\* text[:k] for k > 0
Slice(text, k) == SubSeq(text, 1, Min(k, Len(text)))

\* mutants of truncate_text: the test for "no truncation" off by one, and the
\* slice one character too long
truncate_text_GE(text) ==
    IF ~Truthy(text) THEN None
    ELSE IF truncate >= 0 THEN Slice(text, truncate)
    ELSE text
truncate_text_Long(text) ==
    IF ~Truthy(text) THEN None
    ELSE IF truncate > 0 THEN Slice(text, truncate + 1)
    ELSE text

truncate_text(text) ==
    IF ~Truthy(text) THEN None
    ELSE IF truncate > 0 THEN Slice(text, truncate)
    ELSE text

\* mutant of Item: the content kept whole
Item_Whole(row) == [id |-> row.id, content |-> row.content]

\* the item appended for one row
Item(row) == [id |-> row.id, content |-> truncate_text(row.content)]

\* position of the cluster with this key in a cluster list, 0 when absent
RECURSIVE KeyPos(_, _)
KeyPos(cs, key) ==
    IF cs = <<>> THEN 0
    ELSE IF cs[Len(cs)].id = key /\ KeyPos(SubSeq(cs, 1, Len(cs) - 1), key) = 0
         THEN Len(cs)
         ELSE KeyPos(SubSeq(cs, 1, Len(cs) - 1), key)

\* mutants of SetDefaultAppend: the list replaced instead of extended, and
\* the item put in front
SetDefaultAppend_Overwrite(cs, key, item) ==
    IF KeyPos(cs, key) = 0
    THEN Append(cs, [id |-> key, items |-> <<item>>])
    ELSE [cs EXCEPT ![KeyPos(cs, key)].items = <<item>>]
SetDefaultAppend_Front(cs, key, item) ==
    IF KeyPos(cs, key) = 0
    THEN Append(cs, [id |-> key, items |-> <<item>>])
    ELSE [cs EXCEPT ![KeyPos(cs, key)].items = <<item>> \o @]

\* clusters.setdefault(key, []).append(item) on an insertion-ordered dict
SetDefaultAppend(cs, key, item) ==
    IF KeyPos(cs, key) = 0
    THEN Append(cs, [id |-> key, items |-> <<item>>])
    ELSE [cs EXCEPT ![KeyPos(cs, key)].items = Append(@, item)]

\* the loop over zip(rows, assignments), after its first k pairs
RECURSIVE Grouped(_, _, _)
Grouped(rs, as, k) ==
    IF k = 0 THEN <<>>
    ELSE SetDefaultAppend(Grouped(rs, as, k - 1), PyStr(as[k]), Item(rs[k]))

Assembled(rs, as) == Grouped(rs, as, Min(Len(rs), Len(as)))

\* "\n".join(texts)
RECURSIVE Join(_)
Join(texts) ==
    IF texts = <<>> THEN <<>>
    ELSE IF Len(texts) = 1 THEN texts[1]
    ELSE texts[1] \o <<"\n">> \o Join(Tail(texts))

\* [item["content"] for item in items if item["content"]]
RECURSIVE TruthyContents(_)
TruthyContents(items) ==
    IF items = <<>> THEN <<>>
    ELSE IF Truthy(items[1].content)
         THEN <<items[1].content>> \o TruthyContents(Tail(items))
         ELSE TruthyContents(Tail(items))

\* mutant of PromptOf: the contents joined without the filter
PromptOf_NoFilter(items) == Join([k \in 1..Len(items) |-> items[k].content])

PromptOf(items) == Join(TruthyContents(items))

\* text.strip()
RECURSIVE LStrip(_)
LStrip(text) ==
    IF text # <<>> /\ text[1] \in Whitespace THEN LStrip(Tail(text)) ELSE text
RECURSIVE RStrip(_)
RStrip(text) ==
    IF text # <<>> /\ text[Len(text)] \in Whitespace
    THEN RStrip(SubSeq(text, 1, Len(text) - 1)) ELSE text
\* mutant of Strip: the text tested as it is
Strip_Nothing(text) == text
Strip(text) == RStrip(LStrip(text))

\* mutant of SampleSize: the quotient rounded up
SampleSize_Up(count) == (count * sample + 99) \div 100

\* int(count * sample / 100): true division, then truncation toward zero
SampleSize(count) == (count * sample) \div 100

\* the results random.sample(items, k) can give: k items at distinct positions
SamplesOf(items, k) ==
    {[j \in 1..k |-> items[p[j]]] :
        p \in {q \in [1..k -> 1..Len(items)] :
                  \A a, b \in 1..k : a # b => q[a] # q[b]}}

\* one click.echo call
Echo(kind, payload) == [kind |-> kind, payload |-> payload]

\* ------------------------------------------------------------------- Init
Init ==
    /\ pc = "read"
    /\ collection \in CollectionNames
    /\ n \in ClusterCounts
    /\ truncate \in Truncates
    /\ sample_threshold \in Thresholds
    /\ sample \in Samples
    /\ summary \in BOOLEAN
    /\ rows = <<>>
    /\ assignments = <<>>
    /\ fit_called = FALSE
    /\ output_clusters = <<>>
    /\ output = <<>>
    /\ idx = 0
    /\ prompt_content = <<>>
    /\ sampled_items = Unbound
    /\ calls = <<>>
    /\ error = "none"

inputs == <<collection, n, truncate, sample_threshold, sample, summary>>

\* ---------------------------------------------------------------- actions
\* the rows of a stored content column
RowsOf(store) == [k \in 1..Len(store) |-> [id |-> RowIds[k], content |-> store[k]]]

\* the select over embeddings: a name that is no collection makes the
\* subquery NULL, and the select returns no row
ReadRows ==
    /\ pc = "read"
    /\ \E store \in Stores :
          rows' = IF collection = StoredCollection THEN RowsOf(store) ELSE <<>>
    /\ pc' = "fit"
    /\ UNCHANGED <<inputs, assignments, fit_called, output_clusters, output, idx,
                   prompt_content, sampled_items, calls, error>>

\* clustering_model.fit on at least n rows: one label in 0..n-1 per row
Fit ==
    /\ pc = "fit"
    /\ Len(rows) >= n
    /\ fit_called' = TRUE
    /\ assignments' \in [1..Len(rows) -> 0..(n - 1)]
    /\ pc' = "assemble"
    /\ UNCHANGED <<inputs, rows, output_clusters, output, idx,
                   prompt_content, sampled_items, calls, error>>

\* clustering_model.fit on fewer than n rows (no row at all included) raises
FitRaises ==
    /\ pc = "fit"
    /\ Len(rows) < n
    /\ fit_called' = TRUE
    /\ error' = "ValueError"
    /\ pc' = "error"
    /\ UNCHANGED <<inputs, rows, assignments, output_clusters, output, idx,
                   prompt_content, sampled_items, calls>>

Assemble ==
    /\ pc = "assemble"
    /\ output_clusters' = Assembled(rows, assignments)
    /\ pc' = IF summary THEN "summary" ELSE "dump"
    /\ UNCHANGED <<inputs, rows, assignments, fit_called, output, idx,
                   prompt_content, sampled_items, calls, error>>

\* click.echo(json.dumps(output_clusters, indent=4))
Dump ==
    /\ pc = "dump"
    /\ output' = Append(output, Echo("json", output_clusters))
    /\ pc' = "done"
    /\ UNCHANGED <<inputs, rows, assignments, fit_called, output_clusters, idx,
                   prompt_content, sampled_items, calls, error>>

\* model = llm.get_model(...), the key lookup, and the opening "["
StartSummary ==
    /\ pc = "summary"
    /\ output' = Append(output, Echo("open_list", None))
    /\ idx' = 1
    /\ pc' = IF output_clusters = <<>> THEN "end" ELSE "head"
    /\ UNCHANGED <<inputs, rows, assignments, fit_called, output_clusters,
                   prompt_content, sampled_items, calls, error>>

\* llm.get_model or get_key raises: unknown model, no key
StartSummaryRaises ==
    /\ pc = "summary"
    /\ error' = "ModelSetupError"
    /\ pc' = "error"
    /\ UNCHANGED <<inputs, rows, assignments, fit_called, output_clusters, output,
                   idx, prompt_content, sampled_items, calls>>

\* mutant of HeadLines: nothing written before the summary is known
HeadLines_Held(cluster) == <<>>

\* the three echoes that open a cluster: "{", its id, its items
HeadLines(cluster) ==
    << Echo("open", None), Echo("id", cluster.id), Echo("items", cluster.items) >>

EmitHead ==
    /\ pc = "head"
    /\ output' = output \o HeadLines(output_clusters[idx])
    /\ pc' = "prompt"
    /\ UNCHANGED <<inputs, rows, assignments, fit_called, output_clusters, idx,
                   prompt_content, sampled_items, calls, error>>

\* the joined content is within sample_threshold: it is the prompt (a sample
\* list left by an earlier cluster is not read again: it counts as unbound)
BuildPrompt ==
    /\ pc = "prompt"
    /\ Len(PromptOf(output_clusters[idx].items)) <= sample_threshold
    /\ prompt_content' = PromptOf(output_clusters[idx].items)
    /\ sampled_items' = Unbound
    /\ pc' = "ask"
    /\ UNCHANGED <<inputs, rows, assignments, fit_called, output_clusters, output,
                   idx, calls, error>>

\* the joined content exceeds sample_threshold: the prompt is rebuilt from a
\* random sample of the items
BuildSampledPrompt ==
    /\ pc = "prompt"
    /\ Len(PromptOf(output_clusters[idx].items)) > sample_threshold
    /\ \E s \in SamplesOf(output_clusters[idx].items,
                          SampleSize(Len(output_clusters[idx].items))) :
          /\ sampled_items' = s
          /\ prompt_content' = PromptOf(s)
    /\ pc' = "ask"
    /\ UNCHANGED <<inputs, rows, assignments, fit_called, output_clusters, output,
                   idx, calls, error>>

\* the end of one iteration: the summary line, the closing brace, next cluster
Finish(text) ==
    /\ output' = output \o << Echo("summary", text),
                              Echo("close", idx = Len(output_clusters)) >>
    /\ idx' = idx + 1
    /\ pc' = IF idx = Len(output_clusters) THEN "end" ELSE "head"

\* model.prompt(prompt_content, system=prompt).text() answers
Summarise ==
    /\ pc = "ask"
    /\ Strip(prompt_content) # <<>>
    /\ calls' = Append(calls, [cluster |-> output_clusters[idx].id,
                               text |-> prompt_content])
    /\ \E r \in Responses : Finish(r)
    /\ UNCHANGED <<inputs, rows, assignments, fit_called, output_clusters,
                   prompt_content, sampled_items, error>>

\* model.prompt(...) or .text() raises: the exception ends the run
SummariseRaises ==
    /\ pc = "ask"
    /\ Strip(prompt_content) # <<>>
    /\ calls' = Append(calls, [cluster |-> output_clusters[idx].id,
                               text |-> prompt_content])
    /\ error' = "ModelError"
    /\ pc' = "error"
    /\ UNCHANGED <<inputs, rows, assignments, fit_called, output_clusters, output,
                   idx, prompt_content, sampled_items>>

\* nothing but whitespace to summarise: summary = None, no call
SkipSummary ==
    /\ pc = "ask"
    /\ Strip(prompt_content) = <<>>
    /\ Finish(None)
    /\ UNCHANGED <<inputs, rows, assignments, fit_called, output_clusters,
                   prompt_content, sampled_items, calls, error>>

\* the closing "]"
EndSummary ==
    /\ pc = "end"
    /\ output' = Append(output, Echo("close_list", None))
    /\ pc' = "done"
    /\ UNCHANGED <<inputs, rows, assignments, fit_called, output_clusters, idx,
                   prompt_content, sampled_items, calls, error>>

Next ==
    \/ ReadRows
    \/ Fit
    \/ FitRaises
    \/ Assemble
    \/ Dump
    \/ StartSummary
    \/ StartSummaryRaises
    \/ EmitHead
    \/ BuildPrompt
    \/ BuildSampledPrompt
    \/ Summarise
    \/ SummariseRaises
    \/ SkipSummary
    \/ EndSummary

Spec == Init /\ [][Next]_vars

\* ------------------------------------------------- reading the run's output
JsonLines == SelectSeq(output, LAMBDA e : e.kind = "json")
IdLines == SelectSeq(output, LAMBDA e : e.kind = "id")
ItemsLines == SelectSeq(output, LAMBDA e : e.kind = "items")
SummaryLines == SelectSeq(output, LAMBDA e : e.kind = "summary")
ListClosed == \E k \in 1..Len(output) : output[k].kind = "close_list"

\* the clusters written so far, in the order written
EmittedClusters ==
    IF JsonLines # <<>> THEN JsonLines[1].payload
    ELSE [k \in 1..Len(ItemsLines) |->
             [id |-> IdLines[k].payload, items |-> ItemsLines[k].payload]]

\* the places <<cluster, position>> of the items of a cluster list, and the
\* item at a place
PlacesOf(cs) ==
    UNION {{<<c, j>> : j \in 1..Len(cs[c].items)} : c \in 1..Len(cs)}
ItemAt(cs, pl) == cs[pl[1]].items[pl[2]]
\* the items written so far, each with the label of the cluster it is under
EmittedItems ==
    LET ec == EmittedClusters
    IN  {[label |-> ec[pl[1]].id, item |-> ItemAt(ec, pl)] : pl \in PlacesOf(ec)}

\* the row an item was made from, and that row's stored content
RowIndex(id) == CHOOSE r \in 1..Len(rows) : rows[r].id = id
Source(item) == rows[RowIndex(item.id)].content

AllWhitespace(text) == \A k \in 1..Len(text) : text[k] \in Whitespace
Done == pc = "done"

\* ------------------------------------------------------------------ C1
\* C1: in every completed run each row's id appears in exactly one output
\* cluster, exactly once, and the output holds no other id: the output
\* clusters partition the rows read.
C1_Partition ==
    Done =>
        LET ec == EmittedClusters
            places == PlacesOf(ec)
        IN  /\ \A r \in 1..Len(rows) :
                  Cardinality({pl \in places : ItemAt(ec, pl).id = rows[r].id}) = 1
            /\ \A pl \in places :
                  \E r \in 1..Len(rows) : rows[r].id = ItemAt(ec, pl).id
            /\ Cardinality(places) = Len(rows)

C1_Witness ==
    /\ Done
    /\ summary
    /\ Len(rows) = 3
    /\ Len(EmittedClusters) = 2

\* ------------------------------------------------------------------ C10
FirstRow(label) ==
    CHOOSE r \in 1..Len(rows) :
        /\ PyStr(assignments[r]) = label
        /\ \A q \in 1..(r - 1) : PyStr(assignments[q]) # label

\* C10: in every completed run, with or without summaries, the clusters are
\* written in the order in which their labels first occur in the rows, each
\* item is in the cluster of its row's label, and the items of a cluster keep
\* the order of their rows.
C10_FirstSeenOrder ==
    Done =>
        LET ec == EmittedClusters
            places == PlacesOf(ec)
        IN  /\ \A pl \in places :
                  PyStr(assignments[RowIndex(ItemAt(ec, pl).id)]) = ec[pl[1]].id
            /\ \A c, d \in 1..Len(ec) :
                  c < d => FirstRow(ec[c].id) < FirstRow(ec[d].id)
            /\ \A pl, pm \in places :
                  (pl[1] = pm[1] /\ pl[2] < pm[2])
                      => RowIndex(ItemAt(ec, pl).id) < RowIndex(ItemAt(ec, pm).id)

\* label 1 met before label 0, and two rows in one cluster
C10_Witness ==
    /\ Done
    /\ Len(EmittedClusters) = 2
    /\ EmittedClusters[1].id = "1"
    /\ EmittedClusters[2].id = "0"
    /\ Len(EmittedClusters[1].items) = 2

\* ------------------------------------------------------------------ C4
\* C4 as stated: with truncate = 0 every output item's content equals its
\* source content, the empty string and null included.
C4_Original ==
    truncate = 0 =>
        \A e \in EmittedItems : e.item.content = Source(e.item)

\* C4 amended: with truncate = 0 every output item's content equals its source
\* content when that is null or non-empty, and is null when the source
\* content is the empty string.
C4_Amended ==
    truncate = 0 =>
        \A e \in EmittedItems :
            LET src == Source(e.item)
            IN  e.item.content = IF src = <<>> THEN None ELSE src

C4_Witness ==
    /\ truncate = 0
    /\ \E e \in EmittedItems : Source(e.item) = <<"a", "b">>
    /\ \E e \in EmittedItems : Source(e.item) = <<>>
    /\ \E e \in EmittedItems : Source(e.item) = None

\* ------------------------------------------------------------------ C5
\* the first k characters of a text, written out position by position
FirstChars(text, k) == [j \in 1..(IF Len(text) < k THEN Len(text) ELSE k) |-> text[j]]

\* C5 as stated: with truncate = k > 0 every output item whose source content
\* is not null has a content of at most k characters, the first k characters
\* of the source content, the empty string included.
C5_Original ==
    truncate > 0 =>
        \A e \in EmittedItems :
            LET src == Source(e.item)
            IN  src # None =>
                    /\ e.item.content = FirstChars(src, truncate)
                    /\ Len(e.item.content) <= truncate

\* C5 amended: with truncate = k > 0 every output item whose source content is
\* neither null nor empty has a content of at most k characters, the first k
\* characters of the source content; an empty source content gives null.
C5_Amended ==
    truncate > 0 =>
        \A e \in EmittedItems :
            LET src == Source(e.item)
            IN  /\ Truthy(src) =>
                      /\ e.item.content = FirstChars(src, truncate)
                      /\ Len(e.item.content) <= truncate
                /\ src = <<>> => e.item.content = None

\* a content cut short, one as long as k, and an empty one
C5_Witness ==
    /\ truncate = 1
    /\ \E e \in EmittedItems :
          /\ Source(e.item) = <<"a", "b">>
          /\ e.item.content = <<"a">>
    /\ \E e \in EmittedItems : Source(e.item) = <<" ">>
    /\ \E e \in EmittedItems : Source(e.item) = <<>>

\* ------------------------------------------------------------------ C2
\* the items the prompt of the current cluster is built from
UsedItems == IF sampled_items = Unbound THEN output_clusters[idx].items ELSE sampled_items
SourcesOf(items) == [k \in 1..Len(items) |-> Source(items[k])]
CutSourcesOf(items) == [k \in 1..Len(items) |-> truncate_text(Source(items[k]))]

\* C2 as stated: whatever truncate is, the text sent to the model for a
\* cluster is the newline-join of the stored, untruncated contents of the
\* items it is built from.
C2_Original ==
    pc = "ask" => prompt_content = Join(SelectSeq(SourcesOf(UsedItems), Truthy))

\* C2 amended: the text sent to the model for a cluster is the newline-join of
\* the contents of the items it is built from as truncated for the output
\* (cut to truncate characters when truncate > 0), so it is the join of the
\* full contents only when truncate = 0 or no content is longer than truncate.
C2_Amended ==
    pc = "ask" => prompt_content = Join(SelectSeq(CutSourcesOf(UsedItems), Truthy))

C2_Witness ==
    /\ pc = "ask"
    /\ truncate = 1
    /\ \E k \in 1..Len(UsedItems) : Source(UsedItems[k]) = <<"a", "b">>
    /\ Len(UsedItems) = 2
    /\ prompt_content # Join(SelectSeq(SourcesOf(UsedItems), Truthy))

\* ------------------------------------------------------------------ C3
\* Python's round() of x/100: to the nearest integer, halves to the even one
PyRound100(x) ==
    IF (x % 100) > 50 \/ ((x % 100) = 50 /\ (x \div 100) % 2 = 1)
    THEN (x \div 100) + 1 ELSE x \div 100
\* the largest integer not above x/100
Floor100(x) == CHOOSE k \in 0..x : 100 * k <= x /\ 100 * (k + 1) > x

CurrentItems == output_clusters[idx].items
\* sampled_items holds k items of the current cluster, no item twice, and the
\* prompt is built from them
SampledExactly(k) ==
    /\ sampled_items # Unbound
    /\ Len(sampled_items) = k
    /\ \A a \in 1..Len(sampled_items) :
          \E j \in 1..Len(CurrentItems) : sampled_items[a] = CurrentItems[j]
    /\ \A a, b \in 1..Len(sampled_items) :
          a # b => sampled_items[a].id # sampled_items[b].id
    /\ prompt_content = PromptOf(sampled_items)
NotSampled ==
    /\ sampled_items = Unbound
    /\ prompt_content = PromptOf(CurrentItems)

\* C3 as stated: a cluster whose joined content is longer than
\* sample_threshold is sampled without replacement to exactly
\* round(item_count * sample / 100) items; otherwise all items are used.
C3_Original ==
    pc = "ask" =>
        IF Len(PromptOf(CurrentItems)) > sample_threshold
        THEN SampledExactly(PyRound100(Len(CurrentItems) * sample))
        ELSE NotSampled

\* C3 amended: the sample has exactly floor(item_count * sample / 100) items
\* (the quotient truncated, not rounded); the rest as stated.
C3_Amended ==
    pc = "ask" =>
        IF Len(PromptOf(CurrentItems)) > sample_threshold
        THEN SampledExactly(Floor100(Len(CurrentItems) * sample))
        ELSE NotSampled

\* 80% of two items: one item sampled, where rounding would give two
C3_Witness ==
    /\ pc = "ask"
    /\ sample = 80
    /\ Len(CurrentItems) = 2
    /\ sampled_items # Unbound
    /\ Len(sampled_items) = 1

\* ------------------------------------------------------------------ C6
CallsFor(c) ==
    Cardinality({k \in 1..Len(calls) : calls[k].cluster = output_clusters[c].id})
AllNull(c) ==
    \A j \in 1..Len(output_clusters[c].items) : Source(output_clusters[c].items[j]) = None

\* C6: in summary mode a cluster whose items all have null content gets
\* summary null and no model call; and whenever the final prompt text of a
\* cluster is empty or only whitespace, its summary is null and the model was
\* not called for it (no call ever carries such a text).
C6_NoCallWithoutText ==
    /\ \A c \in 1..Len(output_clusters) :
          AllNull(c) =>
              /\ CallsFor(c) = 0
              /\ LET sl == SummaryLines IN c <= Len(sl) => sl[c].payload = None
    /\ (pc \in {"head", "end", "done"} /\ idx > 1 /\ AllWhitespace(prompt_content)) =>
          /\ SummaryLines[idx - 1].payload = None
          /\ CallsFor(idx - 1) = 0
    /\ \A k \in 1..Len(calls) : ~AllWhitespace(calls[k].text)

\* a finished run with an all-null cluster, a blank one, and one model call
C6_Witness ==
    /\ Done
    /\ summary
    /\ Len(output_clusters) = 2
    /\ AllNull(1)
    /\ SummaryLines[1].payload = None
    /\ Len(calls) = 1

\* ------------------------------------------------------------------ C7
\* the cluster has an item whose (output) content is not only whitespace
HasText(c) ==
    \E j \in 1..Len(output_clusters[c].items) :
        /\ Truthy(output_clusters[c].items[j].content)
        /\ ~AllWhitespace(output_clusters[c].items[j].content)
WithinThreshold(c) == Len(PromptOf(output_clusters[c].items)) <= sample_threshold

\* C7 as stated: in a completed summary run the model is invoked exactly once
\* for every cluster with an item of non-whitespace content, and for no other
\* cluster, whatever sample_threshold and sample are.
C7_Original ==
    (Done /\ summary) =>
        /\ \A c \in 1..Len(output_clusters) :
              CallsFor(c) = (IF HasText(c) THEN 1 ELSE 0)
        /\ Len(calls) = Cardinality({c \in 1..Len(output_clusters) : HasText(c)})

\* C7 amended: in a completed summary run the model is invoked at most once
\* per cluster, only for clusters with an item of non-whitespace content, and
\* exactly when the cluster's summary is not null; it is invoked exactly once
\* for every such cluster whose joined content is within sample_threshold (a
\* sample may hold no item with text, and then there is no call).
C7_Amended ==
    (Done /\ summary) =>
        \A c \in 1..Len(output_clusters) :
            /\ CallsFor(c) <= 1
            /\ CallsFor(c) = 1 => HasText(c)
            /\ CallsFor(c) = 1 <=> SummaryLines[c].payload # None
            /\ (HasText(c) /\ WithinThreshold(c)) => CallsFor(c) = 1

\* one cluster with text sampled down to nothing, another one summarised
C7_Witness ==
    /\ Done
    /\ summary
    /\ \E c \in 1..Len(output_clusters) : HasText(c) /\ CallsFor(c) = 0
    /\ \E c \in 1..Len(output_clusters) : HasText(c) /\ CallsFor(c) = 1

\* ------------------------------------------------------------------ C8
\* C8 as stated: when the model call for a cluster fails, the output holds
\* neither the id nor the items of that cluster or of any later cluster.
C8_Original ==
    error = "ModelError" =>
        \A c \in idx..Len(output_clusters) :
            /\ \A k \in 1..Len(IdLines) : IdLines[k].payload # output_clusters[c].id
            /\ \A k \in 1..Len(ItemsLines) : ItemsLines[k].payload # output_clusters[c].items

\* C8 amended: when the model call for a cluster fails, the output holds the
\* id and the items of every cluster up to and including the failing one, in
\* order, the summaries of the clusters before it only, and nothing of a later
\* cluster; it ends with the failing cluster's items and the list is not
\* closed.
C8_Amended ==
    error = "ModelError" =>
        /\ Len(IdLines) = idx
        /\ Len(ItemsLines) = idx
        /\ \A c \in 1..idx :
              /\ IdLines[c].payload = output_clusters[c].id
              /\ ItemsLines[c].payload = output_clusters[c].items
        /\ Len(SummaryLines) = idx - 1
        /\ output[Len(output)].kind = "items"
        /\ ~ListClosed

\* the first of two clusters fails
C8_Witness ==
    /\ error = "ModelError"
    /\ idx = 1
    /\ Len(output_clusters) = 2

\* ------------------------------------------------------------------ C9
\* C9: when the collection name is not in the store, the run ends with a
\* not-found error, the clustering fit is never entered, and nothing is
\* written.
C9_NotFound ==
    collection # StoredCollection =>
        /\ ~fit_called
        /\ pc = "error" => error = "NotFoundError"
        /\ output = <<>>
====
